---- MODULE Spec2Model ----
(***************************************************************************)
(* Model of the retrieval pipeline of backend/rag_storage.py and of the    *)
(* tools of backend/agent.py.                                              *)
(*                                                                         *)
(* Text is a sequence of code points (10 = "\n", 32 = " ", 97 = "a", ...). *)
(* A file path is a sequence of path tokens ("/", ".", and name pieces).   *)
(***************************************************************************)
EXTENDS Integers, Sequences, FiniteSets, TLC

VARIABLES
    cText,      \* splitter run: the document text handed to the splitter
    cSize,      \* splitter run: chunk_size
    cOverlap,   \* splitter run: chunk_overlap
    cSegs,      \* splitter run: the splitter's output once cDone
    cDone,      \* splitter run: the splitter has run
    qIndex,     \* index run: the vectors added so far, in insertion order
    qLast,      \* index run: the last search (index state, query, k, labels)
    lPath,      \* loader run: the file path handed to the loader
    emptyAddRaises, \* whether the installed index rejects an empty batch
    hasStore,   \* a caller holds a vector store from create_vector_store
    vstore,     \* that vector store
    ingested,   \* the file paths process_document has added to it
    res,        \* the last pipeline call: what was asked and what came out
    tool,       \* agent run: the last retrieve_evidence / retrieve_laws call
    ga          \* agent run: the last analyze_greenwashing call

chunkVars == <<cText, cSize, cOverlap, cSegs, cDone>>
queryVars == <<qIndex, qLast>>
pipeVars == <<emptyAddRaises, hasStore, vstore, ingested>>
agentVars == <<tool, ga>>
vars == <<chunkVars, queryVars, lPath, pipeVars, res, agentVars>>

-----------------------------------------------------------------------------
(* Text helpers (Python str operations used by the splitter).              *)

Whitespace == {9, 10, 13, 32}

\* the element of a one-element set; The({F(v) : v \in {e}}) is F(e) with e
\* worked out once, before F uses it
The(S) == CHOOSE v \in S : TRUE

\* str.strip(): leading and trailing whitespace removed
Strip(s) ==
    LET inked == {i \in 1..Len(s) : s[i] \notin Whitespace} IN
    IF inked = {} THEN <<>>
    ELSE SubSeq(s, CHOOSE i \in inked : \A j \in inked : i <= j,
                   CHOOSE i \in inked : \A j \in inked : i >= j)

\* separator.join(docs[lo..hi])
RECURSIVE JoinRange(_, _, _, _)
JoinRange(docs, sep, lo, hi) ==
    IF lo > hi THEN <<>>
    ELSE IF lo = hi THEN docs[lo]
    ELSE LET mid == (lo + hi) \div 2 IN
         JoinRange(docs, sep, lo, mid) \o sep \o JoinRange(docs, sep, mid + 1, hi)

\* separator.join(docs)
Join(docs, sep) == JoinRange(docs, sep, 1, Len(docs))

Matches(text, sep, i) ==
    /\ i + Len(sep) - 1 <= Len(text)
    /\ SubSeq(text, i, i + Len(sep) - 1) = sep

\* re.search(re.escape(sep), text) for a non-empty literal separator
HasSep(text, sep) == \E i \in 1..Len(text) : Matches(text, sep, i)

\* the scan of re.split over the positions lo..hi of text: a match is taken
\* where the separator stands and no earlier match covers the position
RECURSIVE MatchScan(_, _, _, _, _)
MatchScan(text, sep, lo, hi, st) ==
    IF lo > hi THEN st
    ELSE IF lo = hi
    THEN IF lo >= st.next /\ Matches(text, sep, lo)
         THEN [next |-> lo + Len(sep), starts |-> Append(st.starts, lo)]
         ELSE st
    ELSE The({ MatchScan(text, sep, ((lo + hi) \div 2) + 1, hi, first) :
               first \in {MatchScan(text, sep, lo, (lo + hi) \div 2, st)} })

\* re.split(sep, text) for a non-empty literal separator: the pieces between
\* the non-overlapping matches, leftmost first
ReSplit(text, sep) ==
    The({ [i \in 1..(Len(starts) + 1) |->
              SubSeq(text,
                     IF i = 1 THEN 1 ELSE starts[i - 1] + Len(sep),
                     IF i = Len(starts) + 1 THEN Len(text) ELSE starts[i] - 1)] :
          starts \in {MatchScan(text, sep, 1, Len(text),
                                [next |-> 1, starts |-> <<>>]).starts} })

-----------------------------------------------------------------------------
(* RecursiveCharacterTextSplitter(chunk_size, chunk_overlap), as built at  *)
(* rag_storage.py:74 with the default separators, keep_separator=True and  *)
(* strip_whitespace=True.                                                  *)

Separators == << <<10, 10>>, <<10>>, <<32>>, <<>> >>

\* _split_text_with_regex(text, separator, keep_separator=True): each
\* separator stays at the start of the piece that follows it; empty pieces
\* are dropped.  The empty separator splits into single characters.
split_text_with_regex(text, sep) ==
    IF sep = <<>>
    THEN [i \in 1..Len(text) |-> <<text[i]>>]
    ELSE The({ SelectSeq([i \in 1..Len(parts) |->
                             IF i = 1 THEN parts[1] ELSE sep \o parts[i]],
                         LAMBDA s : s # <<>>) :
               parts \in {ReSplit(text, sep)} })

\* _join_docs: join, strip, and drop the chunk when nothing is left
join_docs(docs, separator) ==
    The({ IF text = <<>> THEN <<>> ELSE <<text>> :
          text \in {Strip(joined) : joined \in {Join(docs, separator)}} })

SepLenIf(cond, separator) == IF cond THEN Len(separator) ELSE 0

\* a faulty loop test: one character too many is dropped, so that fewer than
\* chunk_overlap characters are carried over
PopWantedEager(current_doc, total, len, separator, chunk_size, chunk_overlap) ==
    \/ total >= chunk_overlap /\ total > 0
    \/ /\ total + len + SepLenIf(Len(current_doc) > 0, separator) > chunk_size
       /\ total > 0

\* the test of the while loop of _merge_splits
PopWanted(current_doc, total, len, separator, chunk_size, chunk_overlap) ==
    \/ total > chunk_overlap
    \/ /\ total + len + SepLenIf(Len(current_doc) > 0, separator) > chunk_size
       /\ total > 0

\* one pass through the while loop of _merge_splits: drop the first piece of
\* current_doc unless the loop has ended
PopOne(st, len, separator, chunk_size, chunk_overlap) ==
    IF st.stop THEN st
    ELSE IF PopWanted(st.current_doc, st.total, len, separator,
                      chunk_size, chunk_overlap)
    THEN [current_doc |-> Tail(st.current_doc),
          total |-> st.total - (Len(st.current_doc[1])
                                 + SepLenIf(Len(st.current_doc) > 1, separator)),
          stop |-> FALSE]
    ELSE [st EXCEPT !.stop = TRUE]

\* n passes through the while loop
RECURSIVE PopTimes(_, _, _, _, _, _)
PopTimes(st, n, len, separator, chunk_size, chunk_overlap) ==
    IF n = 0 \/ st.stop THEN st
    ELSE IF n = 1 THEN PopOne(st, len, separator, chunk_size, chunk_overlap)
    ELSE The({ PopTimes(first, n - (n \div 2), len, separator,
                        chunk_size, chunk_overlap) :
               first \in {PopTimes(st, n \div 2, len, separator,
                                   chunk_size, chunk_overlap)} })

\* a faulty while loop: nothing is carried over into the next chunk
PopFrontAll(current_doc, total, len, separator, chunk_size, chunk_overlap) ==
    [current_doc |-> <<>>, total |-> 0]

\* the while loop of _merge_splits: pieces are dropped from the front of
\* current_doc until at most chunk_overlap characters are kept (and the next
\* piece fits); it ends at the latest when current_doc is empty
PopFront(current_doc, total, len, separator, chunk_size, chunk_overlap) ==
    The({ [current_doc |-> st.current_doc, total |-> st.total] :
          st \in {PopTimes([current_doc |-> current_doc, total |-> total,
                            stop |-> FALSE],
                           Len(current_doc) + 1, len, separator,
                           chunk_size, chunk_overlap)} })

\* one iteration of the for loop of _merge_splits
MergeStep(st, d, separator, chunk_size, chunk_overlap) ==
    IF /\ st.total + Len(d) + SepLenIf(Len(st.current_doc) > 0, separator)
             > chunk_size
       /\ Len(st.current_doc) > 0
    THEN The({ [docs |-> st.docs \o join_docs(st.current_doc, separator),
                current_doc |-> Append(kept.current_doc, d),
                total |-> kept.total + Len(d)
                            + SepLenIf(Len(kept.current_doc) + 1 > 1, separator)] :
               kept \in {PopFront(st.current_doc, st.total, Len(d), separator,
                                  chunk_size, chunk_overlap)} })
    ELSE [docs |-> st.docs,
          current_doc |-> Append(st.current_doc, d),
          total |-> st.total + Len(d)
                      + SepLenIf(Len(st.current_doc) + 1 > 1, separator)]

\* the for loop of _merge_splits over splits[lo..hi], from state st
RECURSIVE MergeLoop(_, _, _, _, _, _, _)
MergeLoop(splits, lo, hi, st, separator, chunk_size, chunk_overlap) ==
    IF lo > hi THEN st
    ELSE IF lo = hi
    THEN MergeStep(st, splits[lo], separator, chunk_size, chunk_overlap)
    ELSE The({ MergeLoop(splits, ((lo + hi) \div 2) + 1, hi, first, separator,
                         chunk_size, chunk_overlap) :
               first \in {MergeLoop(splits, lo, (lo + hi) \div 2, st, separator,
                                    chunk_size, chunk_overlap)} })

\* _merge_splits(splits, separator)
merge_splits(splits, separator, chunk_size, chunk_overlap) ==
    The({ st.docs \o join_docs(st.current_doc, separator) :
          st \in {MergeLoop(splits, 1, Len(splits),
                            [docs |-> <<>>, current_doc |-> <<>>, total |-> 0],
                            separator, chunk_size, chunk_overlap)} })

\* the separator _split_text picks: the first one found in the text, the
\* empty separator when none is
RECURSIVE PickSeparator(_, _, _)
PickSeparator(text, separators, i) ==
    IF i > Len(separators)
    THEN [sep |-> separators[Len(separators)], rest |-> <<>>]
    ELSE IF separators[i] = <<>> THEN [sep |-> <<>>, rest |-> <<>>]
    ELSE IF HasSep(text, separators[i])
         THEN [sep |-> separators[i],
               rest |-> SubSeq(separators, i + 1, Len(separators))]
    ELSE PickSeparator(text, separators, i + 1)

RECURSIVE split_text(_, _, _, _)
RECURSIVE SplitLoop(_, _, _, _, _, _, _)

\* what _split_text has when it leaves a run of short pieces: the run merged
\* (with keep_separator, by the empty separator) behind the chunks so far
Flushed(st, chunk_size, chunk_overlap) ==
    IF st.good # <<>>
    THEN st.final \o merge_splits(st.good, <<>>, chunk_size, chunk_overlap)
    ELSE st.final

\* the body of the for loop of _split_text for one piece s
SplitStep(st, s, new_separators, chunk_size, chunk_overlap) ==
    IF Len(s) < chunk_size
    THEN [st EXCEPT !.good = Append(st.good, s)]
    ELSE [good |-> <<>>,
          final |-> IF new_separators = <<>>
                    THEN Append(Flushed(st, chunk_size, chunk_overlap), s)
                    ELSE Flushed(st, chunk_size, chunk_overlap)
                           \o split_text(s, new_separators, chunk_size, chunk_overlap)]

\* the for loop of _split_text over splits[lo..hi], from state st
SplitLoop(splits, lo, hi, st, new_separators, chunk_size, chunk_overlap) ==
    IF lo > hi THEN st
    ELSE IF lo = hi
    THEN SplitStep(st, splits[lo], new_separators, chunk_size, chunk_overlap)
    ELSE The({ SplitLoop(splits, ((lo + hi) \div 2) + 1, hi, first,
                         new_separators, chunk_size, chunk_overlap) :
               first \in {SplitLoop(splits, lo, (lo + hi) \div 2, st,
                                    new_separators, chunk_size, chunk_overlap)} })

\* RecursiveCharacterTextSplitter._split_text(text, separators)
split_text(text, separators, chunk_size, chunk_overlap) ==
    The({ Flushed(st, chunk_size, chunk_overlap) :
          st \in { SplitLoop(splits, 1, Len(splits),
                             [good |-> <<>>, final |-> <<>>],
                             pick.rest, chunk_size, chunk_overlap) :
                   pick \in {PickSeparator(text, separators, 1)},
                   splits \in {split_text_with_regex(
                                   text, PickSeparator(text, separators, 1).sep)} } })

\* text_splitter.split_documents(docs): every Document is split on its own
RECURSIVE split_documents(_, _, _)
split_documents(docs, chunk_size, chunk_overlap) ==
    IF docs = <<>> THEN <<>>
    ELSE split_text(docs[1], Separators, chunk_size, chunk_overlap)
            \o split_documents(Tail(docs), chunk_size, chunk_overlap)

-----------------------------------------------------------------------------
(* File paths and the files behind them.                                   *)

\* str.lower() on one piece of a file name
LowerToken(t) ==
    CASE t = "PDF" -> "pdf"
      [] t = "Pdf" -> "pdf"
      [] t = "CSV" -> "csv"
      [] t = "Csv" -> "csv"
      [] t = "TXT" -> "txt"
      [] OTHER -> t

Lower(tokens) == [i \in 1..Len(tokens) |-> LowerToken(tokens[i])]

\* Path(file_path).name: the last component, trailing slashes ignored
PathName(file_path) ==
    LET filled == {i \in 1..Len(file_path) : file_path[i] # "/"} IN
    IF filled = {} THEN <<>>
    ELSE LET last == CHOOSE i \in filled : \A j \in filled : j <= i
             slashes == {i \in 1..last : file_path[i] = "/"}
             first == IF slashes = {} THEN 1
                      ELSE 1 + CHOOSE i \in slashes : \A j \in slashes : j <= i
         IN SubSeq(file_path, first, last)

\* Path(file_path).suffix: from the last dot of the name on, when that dot
\* is neither the first nor the last character of the name
PathSuffix(file_path) ==
    LET name == PathName(file_path)
        dots == {i \in 1..Len(name) : name[i] = "."}
    IN IF dots = {} THEN <<>>
       ELSE LET i == CHOOSE d \in dots : \A e \in dots : e <= d IN
            IF 1 < i /\ i < Len(name) THEN SubSeq(name, i, Len(name)) ELSE <<>>

\* the files of the example environment: the Documents a loader reads from
\* each (PDF pages, CSV rows); every other path names no file
ReportPath == <<".", "/", "asset", "/", "2024_annual_report", ".", "pdf">>
LawsPath == <<".", "/", "asset", "/", "greenwashing_laws", ".", "csv">>

FilePaths ==
    { ReportPath, LawsPath,
      <<"a", ".", "pdf">>, <<"a", ".", "PDF">>, <<"b", ".", "Csv">>,
      <<"blank", ".", "pdf">>, <<"gone", ".", "pdf">>,
      <<"c", ".", "txt">>, <<"d">> }

\* the files a caller of the pipeline ingests
IngestPaths == FilePaths \ { ReportPath, LawsPath, <<"d">> }

FileExists(file_path) == file_path \in FilePaths \ { <<"gone", ".", "pdf">> }

FileDocs(file_path) ==
    CASE file_path = ReportPath -> << <<97, 97>>, <<98>> >>
      [] file_path = LawsPath -> << <<97, 98>>, <<98, 97>>, <<98, 98, 32>> >>
      [] file_path = <<"a", ".", "pdf">> -> << <<97, 32, 98>>, <<97>> >>
      [] file_path = <<"a", ".", "PDF">> -> << <<98>> >>
      [] file_path = <<"b", ".", "Csv">> -> << <<98, 97>>, <<32, 10>> >>
      [] file_path = <<"blank", ".", "pdf">> -> << <<32>>, <<>> >>
      [] OTHER -> << <<97>> >>

-----------------------------------------------------------------------------
(* External collaborators.  env names what the outside world does during   *)
(* one call: env.fail is the external call that fails (or "none"),         *)
(* env.cols is what CSVLoader(file_path).infer_columns() yields, env.reply *)
(* is the language model's completion, env.empty_add_raises is whether     *)
(* the index rejects an empty batch.                                       *)

Ok == "ok"

\* OpenAIEmbeddings: a fixed function from text to a vector of one dimension
Embed(text) ==
    << Cardinality({i \in 1..Len(text) : text[i] = 97}),
       Cardinality({i \in 1..Len(text) : text[i] = 98}) >>

Fails == {"none", "embed_probe", "embed_documents", "embed_query", "hub_pull", "llm_invoke"}
Columns == { [ok |-> TRUE, names |-> {"content", "id"}],
             [ok |-> TRUE, names |-> {"text"}],
             [ok |-> FALSE, names |-> {}] }
Replies == {"answer", "dont_know"}

NoColumns == [ok |-> TRUE, names |-> {}]

\* the worlds one call can meet: infer_columns is only asked about a .csv
\* path, and the model's reply only matters when no external call fails
Envs(fails, columns, empty_add_raises) ==
    { e \in [fail : fails, cols : columns, reply : Replies,
             empty_add_raises : {empty_add_raises}] :
        e.fail = "none" \/ e.reply = "answer" }

-----------------------------------------------------------------------------
(* rag_storage.py                                                          *)

EmptyStore == [pairs |-> <<>>]

\* a faulty constructor: the caller's store is handed out again instead of a
\* new one (the module-level vector_store of pythonCursor.py)
create_vector_store_shared(env) ==
    IF env.fail = "embed_probe"
    THEN [error |-> "UpstreamError", store |-> vstore, calls |-> {"embed_probe"}]
    ELSE [error |-> Ok, store |-> vstore, calls |-> {"embed_probe"}]

\* create_vector_store(embeddings): the probe embedding gives the index its
\* dimension; the store starts with no vectors and no documents
create_vector_store(env) ==
    IF env.fail = "embed_probe"
    THEN [error |-> "UpstreamError", store |-> EmptyStore, calls |-> {"embed_probe"}]
    ELSE [error |-> Ok, store |-> EmptyStore, calls |-> {"embed_probe"}]

NoLoader == [kind |-> "none", source_column |-> "None"]

\* a faulty dispatch: the extension is compared as written, not lowercased
get_document_loader_exact(file_path, env) ==
    IF PathSuffix(file_path) = <<".", "pdf">>
    THEN [error |-> Ok, loader |-> [kind |-> "PyPDFLoader", source_column |-> "None"]]
    ELSE IF PathSuffix(file_path) = <<".", "csv">>
    THEN IF ~env.cols.ok
         THEN [error |-> "CsvColumnsError", loader |-> NoLoader]
         ELSE [error |-> Ok,
               loader |-> [kind |-> "CSVLoader",
                           source_column |-> IF "content" \in env.cols.names
                                             THEN "content" ELSE "None"]]
    ELSE [error |-> "UnsupportedFileType", loader |-> NoLoader]

\* get_document_loader(file_path)
get_document_loader(file_path, env) ==
    LET file_extension == Lower(PathSuffix(file_path)) IN
    IF file_extension = <<".", "pdf">>
    THEN [error |-> Ok, loader |-> [kind |-> "PyPDFLoader", source_column |-> "None"]]
    ELSE IF file_extension = <<".", "csv">>
    THEN IF ~env.cols.ok
         THEN [error |-> "CsvColumnsError", loader |-> NoLoader]
         ELSE [error |-> Ok,
               loader |-> [kind |-> "CSVLoader",
                           source_column |-> IF "content" \in env.cols.names
                                             THEN "content" ELSE "None"]]
    ELSE [error |-> "UnsupportedFileType", loader |-> NoLoader]

\* loader.load()
load(loader, file_path) ==
    IF FileExists(file_path)
    THEN [error |-> Ok, docs |-> FileDocs(file_path)]
    ELSE [error |-> "FileNotFound", docs |-> <<>>]

\* the (vector, segment) pairs of a batch of texts
Embedded(documents) ==
    [i \in 1..Len(documents) |->
        [vector |-> Embed(documents[i]), segment |-> documents[i]]]

\* a faulty insertion: texts are embedded and appended one at a time, so the
\* ones before a failing embedding call stay in the store
add_documents_one_by_one(vector_store, documents, env) ==
    IF documents = <<>>
    THEN IF env.empty_add_raises
         THEN [error |-> "EmptyBatchError", store |-> vector_store, calls |-> {}]
         ELSE [error |-> Ok, store |-> vector_store, calls |-> {}]
    ELSE IF env.fail = "embed_documents"
    THEN [error |-> "UpstreamError",
          store |-> [pairs |-> vector_store.pairs
                                  \o Embedded(SubSeq(documents, 1, 1))],
          calls |-> {"embed_documents"}]
    ELSE [error |-> Ok,
          store |-> [pairs |-> vector_store.pairs \o Embedded(documents)],
          calls |-> {"embed_documents"}]

\* an insertion that skips the texts the store already holds
add_documents_once(vector_store, documents, env) ==
    IF documents = <<>>
    THEN IF env.empty_add_raises
         THEN [error |-> "EmptyBatchError", store |-> vector_store, calls |-> {}]
         ELSE [error |-> Ok, store |-> vector_store, calls |-> {}]
    ELSE IF env.fail = "embed_documents"
    THEN [error |-> "UpstreamError", store |-> vector_store,
          calls |-> {"embed_documents"}]
    ELSE [error |-> Ok,
          store |-> [pairs |-> vector_store.pairs \o
                        SelectSeq(Embedded(documents),
                                  LAMBDA p : \A i \in 1..Len(vector_store.pairs) :
                                                vector_store.pairs[i] # p)],
          calls |-> {"embed_documents"}]

\* vector_store.add_documents(documents): every text is embedded first, then
\* the vectors and the documents are appended in one batch
add_documents(vector_store, documents, env) ==
    IF documents = <<>>
    THEN IF env.empty_add_raises
         THEN [error |-> "EmptyBatchError", store |-> vector_store, calls |-> {}]
         ELSE [error |-> Ok, store |-> vector_store, calls |-> {}]
    ELSE IF env.fail = "embed_documents"
    THEN [error |-> "UpstreamError", store |-> vector_store,
          calls |-> {"embed_documents"}]
    ELSE [error |-> Ok,
          store |-> [pairs |-> vector_store.pairs \o Embedded(documents)],
          calls |-> {"embed_documents"}]

ChunkSize == 1000
ChunkOverlap == 200

\* process_document(file_path, vector_store), from loader.load() on
Ingest(got, file_path, vector_store, env) ==
    The({ IF read.error # Ok
          THEN [error |-> read.error, loader |-> got.loader,
                store |-> vector_store, calls |-> {}]
          ELSE The({ [error |-> added.error, loader |-> got.loader,
                      store |-> added.store, calls |-> added.calls] :
                     added \in { add_documents(vector_store, all_splits, env) :
                                 all_splits \in {split_documents(
                                     read.docs, ChunkSize, ChunkOverlap)} } }) :
          read \in {load(got.loader, file_path)} })

\* process_document(file_path, vector_store)
process_document(file_path, vector_store, env) ==
    The({ IF got.error # Ok
          THEN [error |-> got.error, loader |-> got.loader,
                store |-> vector_store, calls |-> {}]
          ELSE Ingest(got, file_path, vector_store, env) :
          got \in {get_document_loader(file_path, env)} })

-----------------------------------------------------------------------------
(* The index: faiss.IndexFlatL2 behind the FAISS vector store.             *)

RECURSIVE SumSq(_, _, _)
SumSq(x, y, i) ==
    IF i > Len(x) THEN 0
    ELSE (x[i] - y[i]) * (x[i] - y[i]) + SumSq(x, y, i + 1)

\* squared Euclidean distance, the metric of IndexFlatL2
L2Sqr(x, y) == SumSq(x, y, 1)

\* a faulty result handler: a candidate as near as the farthest one held
\* pushes it out
AddResultLate(best, k, dis, label) ==
    LET cand == [dis |-> dis, label |-> label]
        room == IF Len(best) < k THEN best
                ELSE IF dis <= best[Len(best)].dis
                THEN SubSeq(best, 1, Len(best) - 1)
                ELSE best
        before == Cardinality({j \in 1..Len(room) : room[j].dis <= dis})
    IN IF Len(best) >= k /\ ~(dis <= best[Len(best)].dis) THEN best
       ELSE SubSeq(room, 1, before) \o <<cand>>
                \o SubSeq(room, before + 1, Len(room))

\* the result handler of the exhaustive scan: best holds at most k
\* candidates in ascending order; a candidate enters while fewer than k are
\* held, or when it is strictly nearer than the farthest one held
AddResult(best, k, dis, label) ==
    LET cand == [dis |-> dis, label |-> label]
        room == IF Len(best) < k THEN best
                ELSE IF dis < best[Len(best)].dis
                THEN SubSeq(best, 1, Len(best) - 1)
                ELSE best
        before == Cardinality({j \in 1..Len(room) : room[j].dis <= dis})
    IN IF Len(best) >= k /\ ~(dis < best[Len(best)].dis) THEN best
       ELSE SubSeq(room, 1, before) \o <<cand>>
                \o SubSeq(room, before + 1, Len(room))

RECURSIVE Scan(_, _, _, _, _)
Scan(vectors, x, k, i, best) ==
    IF i > Len(vectors) THEN best
    ELSE The({ Scan(vectors, x, k, i + 1, held) :
               held \in {AddResult(best, k, L2Sqr(x, vectors[i]), i - 1)} })

\* index.search(x, k): k labels (positions from 0, in insertion order),
\* nearest first, padded with -1 when the index holds fewer than k vectors
IndexSearch(vectors, x, k) ==
    The({ [j \in 1..k |-> IF j <= Len(best) THEN best[j].label ELSE -1] :
          best \in {Scan(vectors, x, k, 1, <<>>)} })

DefaultK == 4

\* FAISS.similarity_search_by_vector: the stored documents of the labels
\* the index returns, the -1 padding skipped
similarity_search_by_vector(vector_store, x, k) ==
    The({ [j \in 1..Len(hits) |-> vector_store.pairs[hits[j] + 1].segment] :
          hits \in { SelectSeq(labels, LAMBDA l : l # -1) :
                     labels \in {IndexSearch(
                         [i \in 1..Len(vector_store.pairs) |->
                             vector_store.pairs[i].vector], x, k)} } })

\* setup_graph.retrieve: vector_store.similarity_search(question)
retrieve(vector_store, question, env) ==
    IF env.fail = "embed_query"
    THEN [error |-> "UpstreamError", context |-> <<>>, calls |-> {"embed_query"}]
    ELSE [error |-> Ok,
          context |-> similarity_search_by_vector(vector_store, Embed(question),
                                                  DefaultK),
          calls |-> {"embed_query"}]

NoPrompt == [question |-> <<>>, context |-> <<>>]

\* setup_graph.generate: the retrieved texts joined by a blank line, the
\* prompt pulled from the hub, the model's completion returned
generate(question, context, env) ==
    LET docs_content == Join(context, <<10, 10>>)
        messages == [question |-> question, context |-> docs_content]
    IN IF env.fail = "hub_pull"
       THEN [error |-> "UpstreamError", prompt |-> NoPrompt, answer |-> "none",
             calls |-> {"hub_pull"}]
       ELSE IF env.fail = "llm_invoke"
       THEN [error |-> "UpstreamError", prompt |-> messages, answer |-> "none",
             calls |-> {"hub_pull", "llm_invoke"}]
       ELSE [error |-> Ok, prompt |-> messages, answer |-> env.reply,
             calls |-> {"hub_pull", "llm_invoke"}]

\* the outcome of one call of the pipeline, as its caller and the outside
\* world see it
Outcome(error, loader, store, index, steps, context, prompt, answer, calls) ==
    [error |-> error, loader |-> loader, store |-> store, index |-> index,
     steps |-> steps, context |-> context, prompt |-> prompt,
     answer |-> answer, calls |-> calls]

\* graph.invoke({"question": question}): retrieve, then generate
graph_invoke(vector_store, question, env) ==
    The({ IF found.error # Ok
          THEN Outcome(found.error, NoLoader, vector_store, vector_store.pairs,
                       {"retrieve"}, <<>>, NoPrompt, "none", found.calls)
          ELSE The({ Outcome(made.error, NoLoader, vector_store,
                             vector_store.pairs, {"retrieve", "generate"},
                             found.context, made.prompt, made.answer,
                             found.calls \cup made.calls) :
                     made \in {generate(question, found.context, env)} }) :
          found \in {retrieve(vector_store, question, env)} })

\* analyze_document(question, file_path), from process_document on
Answer(created, question, file_path, env) ==
    The({ IF processed.error # Ok
          THEN Outcome(processed.error, processed.loader, processed.store, <<>>,
                       {}, <<>>, NoPrompt, "none",
                       created.calls \cup processed.calls)
          ELSE The({ [result EXCEPT
                         !.loader = processed.loader,
                         !.calls = created.calls \cup processed.calls \cup @] :
                     result \in {graph_invoke(processed.store, question, env)} }) :
          processed \in {process_document(file_path, created.store, env)} })

\* analyze_document(question, file_path)
analyze_document(question, file_path, env) ==
    The({ IF created.error # Ok
          THEN Outcome(created.error, NoLoader, created.store, <<>>, {}, <<>>,
                       NoPrompt, "none", created.calls)
          ELSE Answer(created, question, file_path, env) :
          created \in {create_vector_store(env)} })

-----------------------------------------------------------------------------
(* agent.py: the tools of the GreenwashingInspector agent.                 *)

\* str.strip() on model output, whose pieces are words, blanks and escapes
Blank == {"sp", "nl"}

StripTokens(t) ==
    LET inked == {i \in 1..Len(t) : t[i] \notin Blank} IN
    IF inked = {} THEN <<>>
    ELSE SubSeq(t, CHOOSE i \in inked : \A j \in inked : i <= j,
                   CHOOSE i \in inked : \A j \in inked : i >= j)

\* re.sub(r"<think>.*?</think>", "", raw_text): each <think> is removed up
\* to the nearest </think> after it; one that is never closed stays
RECURSIVE DropThink(_)
DropThink(t) ==
    LET opens == {i \in 1..Len(t) : t[i] = "<think>"
                     /\ \E j \in (i + 1)..Len(t) : t[j] = "</think>"}
    IN IF opens = {} THEN t
       ELSE LET i == CHOOSE o \in opens : \A p \in opens : o <= p
                j == CHOOSE c \in (i + 1)..Len(t) :
                        /\ t[c] = "</think>"
                        /\ \A d \in (i + 1)..(c - 1) : t[d] # "</think>"
            IN SubSeq(t, 1, i - 1) \o DropThink(SubSeq(t, j + 1, Len(t)))

\* the literal escapes clean_groq_output turns into the characters they name
Unescape(tok) ==
    CASE tok = "esc_n" -> "nl"
      [] tok = "esc_quote" -> "quote"
      [] tok = "esc_apostrophe" -> "apostrophe"
      [] tok = "esc_backslash" -> "backslash"
      [] OTHER -> tok

\* clean_groq_output(raw_text)
clean_groq_output(raw_text) ==
    LET cleaned == DropThink(raw_text) IN
    StripTokens([i \in 1..Len(cleaned) |-> Unescape(cleaned[i])])

EvidencePrefix == <<69, 58, 32>>
LawsPrefix == <<76, 58, 32>>

\* what a retrieval tool returns: the answer of the pipeline as a list of
\* one element
ToolResult(run) ==
    [error |-> run.error,
     list |-> IF run.error = Ok THEN <<run.answer>> ELSE <<>>,
     run |-> run]

\* retrieve_evidence(marketing_statement)
retrieve_evidence(marketing_statement, env) ==
    The({ ToolResult(run) :
          run \in {analyze_document(EvidencePrefix \o marketing_statement,
                                    ReportPath, env)} })

\* retrieve_laws(marketing_statement)
retrieve_laws(marketing_statement, env) ==
    The({ ToolResult(run) :
          run \in {analyze_document(LawsPrefix \o marketing_statement,
                                    LawsPath, env)} })

FallbackExplanation ==
    "No company information available; cannot confirm or deny greenwashing."

NoRequest == [system |-> "none", claim |-> <<>>, company_info |-> <<>>]

\* analyze_greenwashing(marketing_statement, evidence, laws); completion is
\* the content of the model's reply when the model is asked
analyze_greenwashing(marketing_statement, evidence, laws, completion) ==
    IF evidence = <<>>
    THEN [output |-> [json |-> [is_greenwashing |-> FALSE,
                                explanation |-> FallbackExplanation]],
          asked |-> FALSE,
          request |-> NoRequest]
    ELSE [output |-> [text |-> clean_groq_output(completion)],
          asked |-> TRUE,
          request |-> [system |-> "Detect greenwashing in marketing copy.",
                       claim |-> marketing_statement,
                       company_info |-> evidence]]

-----------------------------------------------------------------------------
(* Bounds and inputs.                                                      *)

MaxTextLen == 4
MaxChunk == 3
MaxVectors == 3
MaxPathLen == 3
MaxIngests == 2

RECURSIVE SeqsUpTo(_, _)
SeqsUpTo(S, n) ==
    IF n = 0 THEN {<<>>}
    ELSE LET shorter == SeqsUpTo(S, n - 1) IN
         shorter \cup {Append(t, c) : t \in shorter, c \in S}

\* the document of the chunking scenario: 2,500 characters, none of them
\* whitespace, each one different
ScenarioDoc == [i \in 1..2500 |-> 1000 + i]
\* the same length, written in words
ScenarioWords == [i \in 1..2500 |-> IF i % 10 = 0 THEN 32 ELSE 97]

\* (the splitter's constructor rejects an overlap larger than the size)
SplitInputs ==
    { in \in [text : SeqsUpTo({97, 98, 32, 10}, MaxTextLen),
              size : 1..MaxChunk, overlap : 0..MaxChunk] :
        in.overlap <= in.size }
    \cup { [text |-> t, size |-> ChunkSize, overlap |-> ChunkOverlap] :
             t \in {ScenarioDoc, ScenarioWords} }

PathTokens == {"a", ".", "/", "pdf", "PDF", "csv", "txt"}
AllPaths == SeqsUpTo(PathTokens, MaxPathLen) \cup FilePaths

Questions == { <<97>>, <<98, 98>> }
Statements == { <<97, 98>>, <<98>> }
IndexTexts == { <<97>>, <<98>>, <<97, 98>>, <<98, 97>> }
QueryVectors == { <<0, 0>>, <<1, 1>>, <<2, 0>> }
EvidenceLists == { <<>>, <<"answer">>, <<"dont_know">> }
LawLists == { <<>>, <<"answer">>, <<"dont_know">> }
Completions == { <<"verdict_true">>,
                 <<"<think>", "word", "</think>", "nl", "verdict_false", "esc_n">> }

ColumnsFor(file_path) ==
    IF Lower(PathSuffix(file_path)) = <<".", "csv">> THEN Columns ELSE {NoColumns}

-----------------------------------------------------------------------------
(* The state machine.                                                      *)

NoOutcome == Outcome(Ok, NoLoader, EmptyStore, <<>>, {}, <<>>, NoPrompt, "none", {})
NoCall == [op |-> "none", path |-> <<>>, question |-> <<>>, before |-> <<>>,
           out |-> NoOutcome]
NoSearch == [pairs |-> <<>>, x |-> <<0, 0>>, k |-> 0, labels |-> <<>>, docs |-> <<>>]
NoTool == [name |-> "none", statement |-> <<>>, error |-> Ok, list |-> <<>>,
           run |-> NoOutcome]
NoAnalysis == [called |-> FALSE, statement |-> <<>>, evidence |-> <<>>, laws |-> <<>>,
               completion |-> <<>>,
               output |-> [text |-> <<>>], asked |-> FALSE, request |-> NoRequest]

ChunkIdle ==
    /\ cText = <<>> /\ cSize = 1 /\ cOverlap = 0 /\ cSegs = <<>> /\ cDone = FALSE
QueryIdle == qIndex = EmptyStore /\ qLast = NoSearch
PipeIdle ==
    /\ hasStore = FALSE /\ vstore = EmptyStore /\ ingested = <<>> /\ res = NoCall
AgentIdle == tool = NoTool /\ ga = NoAnalysis

\* the splitter applied to one text
SplitRun ==
    /\ ~cDone
    /\ cSegs' = split_documents(<<cText>>, cSize, cOverlap)
    /\ cDone' = TRUE
    /\ UNCHANGED <<cText, cSize, cOverlap, queryVars, lPath, pipeVars, res, agentVars>>

\* one document added to the index
IndexAdd ==
    /\ Len(qIndex.pairs) < MaxVectors
    /\ \E text \in IndexTexts :
          qIndex' = add_documents(qIndex, <<text>>,
                                  [fail |-> "none", cols |-> NoColumns,
                                   reply |-> "answer",
                                   empty_add_raises |-> TRUE]).store
    /\ UNCHANGED <<chunkVars, qLast, lPath, pipeVars, res, agentVars>>

\* one similarity search on the index
IndexQuery ==
    /\ \E x \in QueryVectors, k \in 1..(MaxVectors + 1) :
          qLast' = [pairs |-> qIndex.pairs, x |-> x, k |-> k,
                    labels |-> IndexSearch([i \in 1..Len(qIndex.pairs) |->
                                               qIndex.pairs[i].vector], x, k),
                    docs |-> similarity_search_by_vector(qIndex, x, k)]
    /\ UNCHANGED <<chunkVars, qIndex, lPath, pipeVars, res, agentVars>>

\* a caller asks get_document_loader for the loader of lPath
LoaderSelect ==
    /\ res.op = "none"
    /\ \E env \in Envs({"none"}, ColumnsFor(lPath), emptyAddRaises) :
          \E got \in {get_document_loader(lPath, env)} :
          res' = [op |-> "loader", path |-> lPath, question |-> <<>>,
                  before |-> <<>>,
                  out |-> Outcome(got.error, got.loader, EmptyStore, <<>>, {}, <<>>,
                                  NoPrompt, "none", {})]
    /\ UNCHANGED <<chunkVars, queryVars, lPath, pipeVars, agentVars>>

\* a caller runs analyze_document(question, file_path)
Analyze(question, file_path) ==
    /\ \E env \in Envs(Fails, ColumnsFor(file_path), emptyAddRaises) :
       \E out \in {analyze_document(question, file_path, env)} :
          res' = [op |-> "analyze", path |-> file_path, question |-> question,
                  before |-> <<>>, out |-> out]
    /\ UNCHANGED <<chunkVars, queryVars, lPath, pipeVars, agentVars>>

LoaderAnalyze ==
    /\ res.op = "none"
    /\ \E question \in Questions : Analyze(question, lPath)

AnalyzeDocument ==
    \E question \in Questions, file_path \in IngestPaths : Analyze(question, file_path)

\* a caller makes itself a vector store
CreateVectorStore ==
    /\ \E env \in Envs({"none", "embed_probe"}, {NoColumns}, emptyAddRaises) :
          \E r \in {create_vector_store(env)} :
          /\ hasStore' = (hasStore \/ r.error = Ok)
          /\ vstore' = IF r.error = Ok THEN r.store ELSE vstore
          /\ ingested' = IF r.error = Ok THEN <<>> ELSE ingested
          /\ res' = [op |-> "create", path |-> <<>>, question |-> <<>>,
                     before |-> vstore.pairs,
                     out |-> Outcome(r.error, NoLoader, r.store, <<>>, {}, <<>>,
                                     NoPrompt, "none", r.calls)]
    /\ UNCHANGED <<chunkVars, queryVars, lPath, emptyAddRaises, agentVars>>

\* a caller runs process_document(file_path, vector_store) on its store
ProcessDocument ==
    /\ hasStore
    /\ Len(ingested) < MaxIngests
    /\ \E file_path \in IngestPaths :
       \E env \in Envs({"none", "embed_documents"}, ColumnsFor(file_path),
                       emptyAddRaises) :
          \E r \in {process_document(file_path, vstore, env)} :
          /\ vstore' = r.store
          /\ ingested' = IF r.error = Ok THEN Append(ingested, file_path)
                         ELSE ingested
          /\ res' = [op |-> "process", path |-> file_path, question |-> <<>>,
                     before |-> vstore.pairs,
                     out |-> Outcome(r.error, r.loader, r.store, <<>>, {}, <<>>,
                                     NoPrompt, "none", r.calls)]
    /\ UNCHANGED <<chunkVars, queryVars, lPath, emptyAddRaises, hasStore, agentVars>>

\* a caller runs the graph of setup_graph(llm, vector_store) on its store
GraphInvoke ==
    /\ hasStore
    /\ \E question \in Questions :
       \E env \in Envs({"none", "embed_query", "hub_pull", "llm_invoke"},
                       {NoColumns}, emptyAddRaises) :
          res' = [op |-> "graph", path |-> <<>>, question |-> question,
                  before |-> vstore.pairs,
                  out |-> graph_invoke(vstore, question, env)]
    /\ UNCHANGED <<chunkVars, queryVars, lPath, pipeVars, agentVars>>

\* the agent calls one of its retrieval tools
RetrieveEvidence ==
    /\ \E statement \in Statements :
       \E env \in Envs(Fails, ColumnsFor(ReportPath), emptyAddRaises) :
          \E r \in {retrieve_evidence(statement, env)} :
          tool' = [name |-> "retrieve_evidence", statement |-> statement,
                   error |-> r.error, list |-> r.list, run |-> r.run]
    /\ UNCHANGED <<chunkVars, queryVars, lPath, pipeVars, res, ga>>

RetrieveLaws ==
    /\ \E statement \in Statements :
       \E env \in Envs(Fails, ColumnsFor(LawsPath), emptyAddRaises) :
          \E r \in {retrieve_laws(statement, env)} :
          tool' = [name |-> "retrieve_laws", statement |-> statement,
                   error |-> r.error, list |-> r.list, run |-> r.run]
    /\ UNCHANGED <<chunkVars, queryVars, lPath, pipeVars, res, ga>>

\* the agent calls analyze_greenwashing with arguments of its choosing
AnalyzeGreenwashing ==
    /\ \E statement \in Statements, evidence \in EvidenceLists, laws \in LawLists,
          completion \in Completions :
          \E r \in {analyze_greenwashing(statement, evidence, laws, completion)} :
          ga' = [called |-> TRUE, statement |-> statement,
                 evidence |-> evidence, laws |-> laws, completion |-> completion,
                 output |-> r.output, asked |-> r.asked, request |-> r.request]
    /\ UNCHANGED <<chunkVars, queryVars, lPath, pipeVars, res, tool>>

-----------------------------------------------------------------------------
(* Specifications.                                                         *)

\* the pipeline functions of rag_storage.py, called in any order
Init ==
    /\ ChunkIdle /\ QueryIdle /\ AgentIdle /\ PipeIdle
    /\ lPath = <<>>
    /\ emptyAddRaises \in BOOLEAN

Next ==
    \/ CreateVectorStore
    \/ ProcessDocument
    \/ GraphInvoke
    \/ AnalyzeDocument

Spec == Init /\ [][Next]_vars

\* the text splitter applied to one input
InitChunk ==
    /\ QueryIdle /\ AgentIdle /\ PipeIdle
    /\ lPath = <<>>
    /\ emptyAddRaises = TRUE
    /\ \E in \in SplitInputs :
          cText = in.text /\ cSize = in.size /\ cOverlap = in.overlap
    /\ cSegs = <<>>
    /\ cDone = FALSE

NextChunk == SplitRun

SpecChunk == InitChunk /\ [][NextChunk]_vars

\* the index filled and searched
InitQuery ==
    /\ ChunkIdle /\ QueryIdle /\ AgentIdle /\ PipeIdle
    /\ lPath = <<>>
    /\ emptyAddRaises = TRUE

NextQuery == IndexAdd \/ IndexQuery

SpecQuery == InitQuery /\ [][NextQuery]_vars

\* one call with one file path
InitLoader ==
    /\ ChunkIdle /\ QueryIdle /\ AgentIdle /\ PipeIdle
    /\ lPath \in AllPaths
    /\ emptyAddRaises \in BOOLEAN

NextLoader == LoaderSelect \/ LoaderAnalyze

SpecLoader == InitLoader /\ [][NextLoader]_vars

\* the tools of the agent, called in any order
InitAgent ==
    /\ ChunkIdle /\ QueryIdle /\ AgentIdle /\ PipeIdle
    /\ lPath = <<>>
    /\ emptyAddRaises = TRUE

NextAgent == RetrieveEvidence \/ RetrieveLaws \/ AnalyzeGreenwashing

SpecAgent == InitAgent /\ [][NextAgent]_vars

-----------------------------------------------------------------------------
(* Properties of the loader dispatch (SpecLoader).                         *)

PdfSuffix == <<".", "pdf">>
CsvSuffix == <<".", "csv">>

\* C1 (as the code has it): the extension is compared after lowercasing.
\* get_document_loader selects the PDF loader for .pdf in any case, the CSV
\* loader for .csv in any case once the loader's column inference has
\* succeeded, and fails with the unsupported-file-type error for every
\* other extension, no extension included.  analyze_document on such a path
\* fails, with that error once the vector store exists, inserts nothing and
\* runs neither retrieve nor generate.
C1_DispatchIgnoringCase ==
    LET ext == Lower(PathSuffix(res.path)) IN
    /\ res.op = "loader" =>
          /\ ext = PdfSuffix =>
                res.out.error = Ok /\ res.out.loader.kind = "PyPDFLoader"
          /\ ext = CsvSuffix =>
                \/ res.out.error = Ok /\ res.out.loader.kind = "CSVLoader"
                \/ res.out.error = "CsvColumnsError" /\ res.out.loader = NoLoader
          /\ ext \notin {PdfSuffix, CsvSuffix} =>
                res.out.error = "UnsupportedFileType" /\ res.out.loader = NoLoader
    /\ res.op = "analyze" /\ ext \notin {PdfSuffix, CsvSuffix} =>
          /\ res.out.error \in {"UnsupportedFileType", "UpstreamError"}
          /\ res.out.loader = NoLoader
          /\ res.out.calls = {"embed_probe"}
          /\ res.out.store.pairs = <<>>
          /\ res.out.index = <<>>
          /\ res.out.steps = {}
          /\ res.out.answer = "none"

\* analyze_document was handed a path with an extension that is neither
\* .pdf nor .csv, and the unsupported-file-type error came back
C1_Witness ==
    /\ res.op = "analyze"
    /\ PathSuffix(res.path) = <<".", "txt">>
    /\ res.out.error = "UnsupportedFileType"

\* C1 as stated: every extension other than exactly .pdf and .csv is
\* rejected
C1_AsStated ==
    res.op = "loader" /\ PathSuffix(res.path) \notin {PdfSuffix, CsvSuffix} =>
        res.out.error = "UnsupportedFileType"

-----------------------------------------------------------------------------
(* Properties of the pipeline (Spec).                                      *)

\* the (vector, segment) pairs process_document makes of one file
SegPairs(file_path) ==
    Embedded(split_documents(FileDocs(file_path), ChunkSize, ChunkOverlap))

RECURSIVE PairsOfAll(_)
PairsOfAll(paths) ==
    IF paths = <<>> THEN <<>>
    ELSE SegPairs(paths[1]) \o PairsOfAll(Tail(paths))

\* C2 as stated: the graph run on a store that has had no successful
\* process_document fails with an empty-corpus error and makes no external
\* call
C2_AsStated ==
    res.op = "graph" /\ ingested = <<>> =>
        /\ res.out.error = "EmptyCorpusError"
        /\ res.out.calls = {}
        /\ res.out.answer = "none"

\* C6 (as the code has it): every successful process_document appends all
\* segments of the file behind what the store held, whether or not the path
\* has been ingested into this store before.
C6_IngestAppends ==
    res.op = "process" /\ res.out.error = Ok =>
        /\ vstore.pairs = res.before \o SegPairs(res.path)
        /\ ingested # <<>> /\ ingested[Len(ingested)] = res.path

\* one path has been ingested twice into one store, and its segments are in
\* the store twice
C6_Witness ==
    /\ res.op = "process" /\ res.out.error = Ok
    /\ Len(ingested) = 2 /\ ingested[1] = ingested[2]
    /\ SegPairs(res.path) # <<>>
    /\ vstore.pairs = SegPairs(res.path) \o SegPairs(res.path)

\* C6 as stated: after a second ingest of the same path the store holds what
\* it held after the first
C6_AsStated ==
    Len(ingested) = 2 /\ ingested[1] = ingested[2] =>
        vstore.pairs = SegPairs(ingested[1])

\* C7: a process_document that fails, at whichever step, leaves the store
\* with the pairs it had before the call; the store always holds whole
\* documents, those of the successful calls in their order; and a failed
\* analyze_document has indexed nothing or all of its file.
C7_AtomicIngest ==
    /\ res.op = "process" /\ res.out.error # Ok => vstore.pairs = res.before
    /\ vstore.pairs = PairsOfAll(ingested)
    /\ res.op = "analyze" =>
          res.out.store.pairs \in {<<>>, SegPairs(res.path)}

\* process_document failed in the embedding call on a file of several
\* segments, over a store that already held a document
C7_Witness ==
    /\ res.op = "process"
    /\ res.out.error = "UpstreamError"
    /\ res.out.calls = {"embed_documents"}
    /\ Len(SegPairs(res.path)) > 1
    /\ res.before # <<>>
    /\ vstore.pairs = res.before

\* C10: the index an analyze_document call queries holds exactly the
\* segments of that call's file, whatever the caller's own store holds and
\* whichever calls came before; what it retrieves is the search of those
\* segments alone.
C10_FreshIndex ==
    res.op = "analyze" /\ "retrieve" \in res.out.steps =>
        /\ res.out.index = SegPairs(res.path)
        /\ res.out.error = Ok =>
              res.out.context =
                  similarity_search_by_vector([pairs |-> SegPairs(res.path)],
                                              Embed(res.question), DefaultK)

\* analyze_document answered while the caller's own store held documents
C10_Witness ==
    /\ res.op = "analyze" /\ res.out.error = Ok
    /\ res.out.context # <<>>
    /\ vstore.pairs # <<>>
    /\ vstore.pairs # res.out.index

-----------------------------------------------------------------------------
(* Properties of the index (SpecQuery).                                    *)

Min(a, b) == IF a < b THEN a ELSE b

\* the distance of the query of qLast to the stored vector with this label
DistOf(label) == L2Sqr(qLast.x, qLast.pairs[label + 1].vector)

\* label a ranks before label b: nearer, or as near and inserted earlier
RanksBefore(a, b) ==
    \/ DistOf(a) < DistOf(b)
    \/ DistOf(a) = DistOf(b) /\ a < b

-----------------------------------------------------------------------------
(* Properties of the splitter (SpecChunk).                                 *)

NoWhitespace(text) == \A i \in 1..Len(text) : text[i] \notin Whitespace

\* how many windows of this size and overlap cover n characters
WindowCount(n, size, overlap) ==
    IF n <= size THEN 1
    ELSE 1 + ((n - size) + (size - overlap) - 1) \div (size - overlap)

\* the windows of at most size characters that start every size - overlap
\* characters
Windows(text, size, overlap) ==
    [i \in 1..WindowCount(Len(text), size, overlap) |->
        SubSeq(text, (i - 1) * (size - overlap) + 1,
               Min((i - 1) * (size - overlap) + size, Len(text)))]

\* the first segment followed by every later one without its first overlap
\* characters
RECURSIVE Rejoin(_, _, _)
Rejoin(segs, overlap, i) ==
    IF i > Len(segs) THEN <<>>
    ELSE SubSeq(segs[i], (IF i = 1 THEN 0 ELSE overlap) + 1, Len(segs[i]))
            \o Rejoin(segs, overlap, i + 1)

ScenarioRan ==
    cDone /\ cText = ScenarioDoc /\ cSize = ChunkSize /\ cOverlap = ChunkOverlap

\* C5 (as the code has it): the 2,500-character document without whitespace
\* gives 3 segments, [0:1000], [800:1800] and [1600:2500], and both
\* boundaries overlap by exactly 200 characters.
C5_ScenarioThreeSegments ==
    ScenarioRan =>
        /\ cSegs = << SubSeq(cText, 1, 1000), SubSeq(cText, 801, 1800),
                      SubSeq(cText, 1601, 2500) >>
        /\ \A i \in 1..(Len(cSegs) - 1) :
              SubSeq(cSegs[i], Len(cSegs[i]) - 199, Len(cSegs[i]))
                  = SubSeq(cSegs[i + 1], 1, 200)

C5_Witness == ScenarioRan /\ Len(cSegs) = 3

\* C5 as stated: the scenario gives 4 segments
C5_AsStated == ScenarioRan => Len(cSegs) = 4

-----------------------------------------------------------------------------
(* Properties of the agent's tools (SpecAgent).                            *)

\* C8 as stated, the part about retrieve_evidence: when the pipeline found
\* no evidence for the statement, the tool returns the empty list
C8_AsStated ==
    /\ tool.name = "retrieve_evidence"
    /\ tool.error = Ok
    /\ tool.run.answer = "dont_know"
    => tool.list = <<>>

\* C9 as stated: with the same statement and the same non-empty evidence,
\* other laws make another request to the model
C9_AsStated ==
    ga.called /\ ga.evidence # <<>> =>
        \A laws \in LawLists \ {ga.laws} :
            analyze_greenwashing(ga.statement, ga.evidence, laws,
                                 ga.completion).request # ga.request
====
